---- MODULE Spec2Model ----
(***************************************************************************)
(* A model of the WebCloset API request handlers.                          *)
(*                                                                         *)
(*   src/app/main.py         -> definitions prefixed app_                  *)
(*   src/main.py             -> definitions prefixed main_                 *)
(*   src/app/webcloset_api.py-> definitions prefixed ads_                  *)
(*                                                                         *)
(* The relational store (item_canonical, item_links, item_source) is read  *)
(* only by the search and click handlers; it is chosen in Init and never   *)
(* changes.  A Python str is a sequence of one-character strings, so that  *)
(* strip() and startswith() are computed and not assumed.  A nullable SQL  *)
(* value is a sequence of length 0 (NULL) or 1 (the value).                *)
(***************************************************************************)
EXTENDS Integers, Sequences, FiniteSets, TLC

\* ------------------------------------------------------------------ bounds
\* canonical items in item_canonical
MaxItems == 3
\* the canonical items that listings are linked to, in the specifications
\* about filters and about /click
MaxLinked == 2
\* listings in item_source, in the specifications about filters
MaxSources == 2
\* requests served in a behaviour of the specifications that follow a
\* sequence of requests
MaxRequests == 3

\* the longest comma-separated list parameter of a GET /search, in
\* characters, in the specification about list parsing
MaxLen == 4

\* requests served in a behaviour of the specifications about repeated
\* searches and about connections
MaxRepeats == 2

\* threads of the worker pool that run the /ads handlers at the same time
MaxWorkers == 2

\* ------------------------------------------------------- nullable values
NULL == <<>>
Some(v) == <<v>>
IsNull(x) == x = <<>>
Val(x) == x[1]

\* ------------------------------------------------------------ Python str
SP == " "
Text_http == <<"h", "t", "t", "p", ":", "/", "/">>
Text_https == <<"h", "t", "t", "p", "s", ":", "/", "/">>
Text_ftp == <<"f", "t", "p", ":", "/", "/">>
Text_None == <<"N", "o", "n", "e">>
\* sample column values
Nike == <<"N", "i", "k", "e">>
nike == <<"n", "i", "k", "e">>
SizeS == <<"S">>
SizeM == <<"M">>
CondNew == <<"n", "e", "w">>
Ebay == <<"e", "b", "a", "y">>
GoodUrl == Text_https \o <<"a">>

\* str.startswith(prefix)
startswith(s, p) == Len(s) >= Len(p) /\ SubSeq(s, 1, Len(p)) = p

\* str.strip(): drop leading and trailing whitespace
RECURSIVE lstrip(_)
lstrip(s) == IF s # <<>> /\ Head(s) = SP THEN lstrip(Tail(s)) ELSE s
RECURSIVE rstrip(_)
rstrip(s) ==
    IF s # <<>> /\ s[Len(s)] = SP THEN rstrip(SubSeq(s, 1, Len(s) - 1)) ELSE s
strip(s) == rstrip(lstrip(s))

\* The letters, for the case folding of ILIKE and of str.lower().
UpperLetters ==
    <<"A", "B", "C", "D", "E", "F", "G", "H", "I", "J", "K", "L", "M",
      "N", "O", "P", "Q", "R", "S", "T", "U", "V", "W", "X", "Y", "Z">>
LowerLetters ==
    <<"a", "b", "c", "d", "e", "f", "g", "h", "i", "j", "k", "l", "m",
      "n", "o", "p", "q", "r", "s", "t", "u", "v", "w", "x", "y", "z">>
lower(s) ==
    [i \in 1..Len(s) |->
        IF \E k \in 1..26 : UpperLetters[k] = s[i]
        THEN LowerLetters[CHOOSE k \in 1..26 : UpperLetters[k] = s[i]]
        ELSE s[i]]

\* col ILIKE '%term%', for a term without the wildcards % and _
ILike(col, term) ==
    \E i \in 0..(Len(col) - Len(term)) :
        SubSeq(lower(col), i + 1, i + Len(term)) = lower(term)

\* ------------------------------------------------------------------ state
VARIABLES
    item_canonical,   \* table item_canonical: set of [id, brand, last_seen]
    item_links,       \* table item_links: set of [canonical_id, source_id, active]
    item_source,      \* table item_source: set of listing rows
    request,          \* the request the last handler run served
    response,         \* the response it produced
    db_calls,         \* connections opened / queries executed for that request
    open_conns,       \* connections opened by finished handlers and never closed
    pending,          \* how many more requests this behaviour serves
    ad_generators,          \* table ad_generators, in insertion order
    ad_generator_versions,  \* table ad_generator_versions, in insertion order
    previous,         \* the request served before the last one, and its response
    txns              \* per worker thread: the /ads transaction it is running

vars == <<item_canonical, item_links, item_source, request, response, db_calls,
          open_conns, pending, ad_generators, ad_generator_versions, previous,
          txns>>
db == <<item_canonical, item_links, item_source>>
ads == <<ad_generators, ad_generator_versions>>

ItemIds == 1..MaxItems

\* The text of a canonical item id as it travels in a URL and in a result
\* row: str(row['id']), in decimal.
DigitChar == <<"0", "1", "2", "3", "4", "5", "6", "7", "8", "9">>
RECURSIVE IdText(_)
IdText(n) ==
    IF n < 10 THEN <<DigitChar[n + 1]>>
    ELSE IdText(n \div 10) \o <<DigitChar[(n % 10) + 1]>>

NoRequest == [endpoint |-> "none"]
NoBody == <<>>
NoResponse == [status |-> 0, location |-> NULL, body |-> NoBody]
NoCalls == [connects |-> 0, queries |-> 0]

\* The sync handlers of src/app/webcloset_api.py run in the threads of a
\* worker pool, each on its own connection and so in its own transaction.
Workers == 1..MaxWorkers
NoScript == [text |-> "", lowest_price |-> 0, highest_price |-> 0]
IdleTxn ==
    [pc |-> "idle", kind |-> "none", id |-> <<>>, body |-> NoScript, ad_id |-> 0,
     version |-> 0]

\* ------------------------------------------------------------ the tables
\* One link row per listing at most: a listing is unlinked, or linked to one
\* canonical item by an active or an inactive link.
Unlinked == <<>>
LinksTo(Items) == {<<c, a>> : c \in Items, a \in BOOLEAN}

\* What one listing can look like: its item_source columns and its link.
Listings(Links, Prices, Urls, Sizes, Conditions, Markets) ==
    [link : Links, price_cents : Prices, seller_url : Urls, size : Sizes,
     condition : Conditions, marketplace_code : Markets]

RECURSIVE SetToSeq(_)
SetToSeq(S) ==
    IF S = {} THEN <<>>
    ELSE LET x == CHOOSE y \in S : TRUE IN <<x>> \o SetToSeq(S \ {x})

\* The nondecreasing sequences of length m over 1..n.  The listing ids are
\* never returned nor ordered by, so the listings are interchangeable and one
\* numbering per multiset of listings is enough.
RECURSIVE Multisets(_, _)
Multisets(m, n) ==
    IF m = 0 THEN {<<>>}
    ELSE UNION {{Append(k, j) : j \in (IF k = <<>> THEN 1 ELSE k[Len(k)])..n} :
                    k \in Multisets(m - 1, n)}

SourcesOf(L, k) ==
    {[id |-> s, price_cents |-> L[k[s]].price_cents,
      seller_url |-> L[k[s]].seller_url, size |-> L[k[s]].size,
      condition |-> L[k[s]].condition,
      marketplace_code |-> L[k[s]].marketplace_code] : s \in 1..Len(k)}

LinksOf(L, k) ==
    {[canonical_id |-> L[k[s]].link[1], source_id |-> s, active |-> L[k[s]].link[2]] :
        s \in {t \in 1..Len(k) : L[k[t]].link # <<>>}}

CanonicalOf(h) ==
    {[id |-> i, brand |-> h[i].brand, last_seen |-> h[i].last_seen] : i \in ItemIds}

\* The tables: the canonical items 1..MaxItems with the columns one of the
\* functions of H gives them, and n listings drawn from L.
DbInit(H, L, n) ==
    /\ \E h \in H : item_canonical = CanonicalOf(h)
    /\ \E k \in Multisets(n, Len(L)) :
           /\ item_links = LinksOf(L, k)
           /\ item_source = SourcesOf(L, k)

\* every item of brand Nike, seen at the same time
Plain == [i \in ItemIds |-> [brand |-> Nike, last_seen |-> 1]]

\* No request served yet; `pending` requests are still to arrive.
IdleInit(n) ==
    /\ request = NoRequest
    /\ response = NoResponse
    /\ db_calls = NoCalls
    /\ open_conns = 0
    /\ pending = n
    /\ ad_generators = <<>>
    /\ ad_generator_versions = <<>>
    /\ previous = [request |-> NoRequest, response |-> NoResponse]
    /\ txns = [w \in Workers |-> IdleTxn]

\* mutant: the inactive links are joined too
ActiveJoin_AnyLink ==
    {[ic |-> t[1], l |-> t[2], s |-> t[3]] :
        t \in UNION {{<<ic, l, s>> :
                        ic \in {c \in item_canonical : c.id = l.canonical_id},
                        s \in {o \in item_source : o.id = l.source_id}} :
                    l \in item_links}}

\* FROM item_canonical ic
\* JOIN item_links l ON l.canonical_id = ic.id AND l.active = true
\* JOIN item_source s ON s.id = l.source_id
ActiveJoin ==
    {[ic |-> t[1], l |-> t[2], s |-> t[3]] :
        t \in UNION {{<<ic, l, s>> :
                        ic \in {c \in item_canonical : c.id = l.canonical_id},
                        s \in {o \in item_source : o.id = l.source_id}} :
                    l \in {k \in item_links : k.active}}}

\* ------------------------------------------------------- the environment
\* What psycopg2.connect and the environment can do to get_db_connection.
ConnectOutcomes == {"ok", "no_url", "operational_error", "other_error"}
\* What the driver can do to cursor.execute / fetch.
QueryOutcomes == {"ok", "db_error", "other_error"}

\* get_db_connection of src/app/main.py: the status of the HTTPException
\* it raises, 0 when it returns a connection.
app_get_db_connection(env) ==
    CASE env = "no_url" -> 500
      [] env = "operational_error" -> 503
      [] env = "other_error" -> 500
      [] OTHER -> 0

\* get_db_connection of src/main.py
main_get_db_connection(env) ==
    CASE env = "no_url" -> 500
      [] env = "operational_error" -> 500
      [] env = "other_error" -> 500
      [] OTHER -> 0

\* The framework hands one pending request to a handler.
Serve ==
    /\ pending > 0 /\ pending' = pending - 1
    /\ previous' = [request |-> request, response |-> response]
    /\ UNCHANGED txns

HttpError(code) == [status |-> code, location |-> NULL, body |-> NoBody]
RedirectResponse(url, code) == [status |-> code, location |-> Some(url), body |-> NoBody]

\* -------------------------------------------------------------- GET /click
\* ORDER BY s.price_cents ASC NULLS LAST
PriceBefore(a, b) ==
    \/ ~IsNull(a) /\ IsNull(b)
    \/ ~IsNull(a) /\ ~IsNull(b) /\ Val(a) < Val(b)

\* The rows the /click query can return first (LIMIT 1): SQL leaves the
\* choice among equally priced listings open.
ClickRows(id) ==
    LET rows == {r \in ActiveJoin : IdText(r.ic.id) = id}
    IN {r \in rows : \A o \in rows : ~PriceBefore(o.s.price_cents, r.s.price_cents)}

\* if not seller_url or not seller_url.startswith(('http://', 'https://'))
app_InvalidSellerUrl(seller_url) ==
    \/ IsNull(seller_url)
    \/ Val(seller_url) = <<>>
    \/ ~(startswith(Val(seller_url), Text_http) \/ startswith(Val(seller_url), Text_https))

\* An HTTPException raised inside the try block of a handler of
\* src/app/main.py: HTTPException is an Exception and is no psycopg2.Error,
\* so the handler's own `except Exception` clause catches it and raises 500.
app_RaisedInTry(code) == 500

\* The body of the try block of redirect_to_seller, src/app/main.py.
app_ClickTry(id, q, row) ==
    CASE q = "db_error" -> HttpError(503)
      [] q = "other_error" -> HttpError(500)
      [] ClickRows(id) = {} -> HttpError(app_RaisedInTry(404))
      [] app_InvalidSellerUrl(row.s.seller_url) -> HttpError(app_RaisedInTry(422))
      [] OTHER -> RedirectResponse(Val(row.s.seller_url), 302)

app_redirect_to_seller(id, env, q) ==
    /\ Serve
    /\ request' = [endpoint |-> "GET /click", impl |-> "app", raw |-> id,
                   env |-> env, q |-> q]
    /\ IF strip(id) = <<>>
       THEN /\ response' = HttpError(400)
            /\ db_calls' = NoCalls
       ELSE IF app_get_db_connection(env) # 0
       THEN /\ response' = HttpError(app_get_db_connection(env))
            /\ db_calls' = [connects |-> 0, queries |-> 0]
       ELSE /\ \E row \in (IF ClickRows(id) = {} THEN {NULL} ELSE ClickRows(id)) :
                  response' = app_ClickTry(id, q, row)
            /\ db_calls' = [connects |-> 1, queries |-> 1]
    \* finally: conn.close()
    /\ UNCHANGED <<db, ads, open_conns>>

\* str(url) as RedirectResponse applies it (quote() leaves every character
\* of the URLs of this model unchanged).
StrOf(x) == IF IsNull(x) THEN Text_None ELSE Val(x)

\* An HTTPException raised inside the try block of a handler of src/main.py
\* is caught by its `except Exception` clause, which raises 500.
main_RaisedInTry(code) == 500

main_ClickTry(id, q, row) ==
    CASE q \in {"db_error", "other_error"} -> HttpError(500)
      [] ClickRows(id) = {} -> HttpError(main_RaisedInTry(404))
      [] OTHER -> RedirectResponse(StrOf(row.s.seller_url), 302)

main_redirect_to_seller(id, env, q) ==
    /\ Serve
    /\ request' = [endpoint |-> "GET /click", impl |-> "main", raw |-> id,
                   env |-> env, q |-> q]
    /\ IF main_get_db_connection(env) # 0
       THEN /\ response' = HttpError(main_get_db_connection(env))
            /\ db_calls' = [connects |-> 0, queries |-> 0]
       ELSE /\ \E row \in (IF ClickRows(id) = {} THEN {NULL} ELSE ClickRows(id)) :
                  response' = main_ClickTry(id, q, row)
            /\ db_calls' = [connects |-> 1, queries |-> 1]
    \* finally: conn.close()
    /\ UNCHANGED <<db, ads, open_conns>>

\* ------------------------------------------------------------- /search
\* SearchRequest: Field(ge=1, le=1000) on page in src/app/main.py, Field(ge=1)
\* in src/main.py; Field(ge=1, le=100) on per_page in both.
PageMin == 1
PageMax == 1000
PerPageMin == 1
PerPageMax == 100
DefaultPage == 1
DefaultPerPage == 24
SortModes == {"best", "price_asc", "price_desc", "newest"}

\* A price in dollars (a Python float) is held in thousandths of a dollar,
\* exactly; int(price * 100) truncates toward zero.
Mills(dollars) == dollars * 1000
int(num, den) == IF num >= 0 THEN num \div den ELSE -((-num) \div den)
\* mutant: the dollars are not converted to cents
ToCents_Dollars(mills) == int(mills, 1000)
ToCents(mills) == int(mills * 100, 1000)

\* The WHERE clause: the conjunction of the predicates whose filter is
\* present, evaluated on one row of the join.  A comparison with NULL is not
\* true.
Where(req, r) ==
    \* ic.title ILIKE %s OR ic.brand ILIKE %s OR ic.category ILIKE %s, with
    \* like_term = f"%{request.q.strip()}%"; the tables of this model leave
    \* title and category NULL
    /\ strip(req.q) # <<>> => ILike(r.ic.brand, strip(req.q))
    /\ req.brands # <<>> =>
           \E i \in 1..Len(req.brands) : r.ic.brand = req.brands[i]
    /\ req.sizes # <<>> =>
           \E i \in 1..Len(req.sizes) : r.s.size = req.sizes[i]
    /\ req.conditions # <<>> =>
           \E i \in 1..Len(req.conditions) : r.s.condition = req.conditions[i]
    /\ req.marketplaces # <<>> =>
           \E i \in 1..Len(req.marketplaces) :
               r.s.marketplace_code = req.marketplaces[i]
    /\ ~IsNull(req.price_min) =>
           /\ ~IsNull(r.s.price_cents)
           /\ Val(r.s.price_cents) >= ToCents(Val(req.price_min))
    /\ ~IsNull(req.price_max) =>
           /\ ~IsNull(r.s.price_cents)
           /\ Val(r.s.price_cents) <= ToCents(Val(req.price_max))

Matching(req) == {r \in ActiveJoin : Where(req, r)}

SetMin(S) == CHOOSE x \in S : \A y \in S : x <= y

SetMax(S) == CHOOSE x \in S : \A y \in S : x >= y

\* mutant: MAX in the place of MIN
MinPrice_Max(rows) ==
    LET ps == {Val(r.s.price_cents) : r \in {o \in rows : ~IsNull(o.s.price_cents)}}
    IN IF ps = {} THEN NULL ELSE Some(SetMax(ps))

\* MIN(s.price_cents) over a group: NULLs are skipped, NULL when none is left.
MinPrice(rows) ==
    LET ps == {Val(r.s.price_cents) : r \in {o \in rows : ~IsNull(o.s.price_cents)}}
    IN IF ps = {} THEN NULL ELSE Some(SetMin(ps))

\* GROUP BY ic.id with the aggregates of the SELECT list.
Groups(req) ==
    {LET g == {r \in Matching(req) : r.ic.id = i}
         ic == CHOOSE c \in item_canonical : c.id = i
     IN [id |-> i, brand |-> ic.brand, last_seen |-> ic.last_seen,
         price_cents |-> MinPrice(g),
         listings_count |-> Cardinality(g),
         seller_urls |-> {r.s.seller_url : r \in g}] :
        i \in {r.ic.id : r \in Matching(req)}}

\* (MIN(s.price_cents) * 0.7 + (1.0 / COUNT(s.*)) * 1000), compared exactly:
\* both sides are multiplied by 10 * COUNT(a) * COUNT(b).
BestBefore(a, b) ==
    \/ ~IsNull(a.price_cents) /\ IsNull(b.price_cents)
    \/ /\ ~IsNull(a.price_cents) /\ ~IsNull(b.price_cents)
       /\ 7 * Val(a.price_cents) * a.listings_count * b.listings_count
              + 10000 * b.listings_count
          < 7 * Val(b.price_cents) * a.listings_count * b.listings_count
              + 10000 * a.listings_count

\* DESC NULLS LAST
PriceAfter(a, b) ==
    \/ ~IsNull(a) /\ IsNull(b)
    \/ ~IsNull(a) /\ ~IsNull(b) /\ Val(a) > Val(b)

\* The sort key of ORDER BY, without the tie-break.
KeyBefore(sort, a, b) ==
    CASE sort = "price_asc" -> PriceBefore(a.price_cents, b.price_cents)
      [] sort = "price_desc" -> PriceAfter(a.price_cents, b.price_cents)
      [] sort = "newest" -> a.last_seen > b.last_seen
      [] OTHER -> BestBefore(a, b)

\* mutant: no tie-break on the id
OrderBefore_KeyOnly(sort, a, b) == KeyBefore(sort, a, b)
\* ORDER BY <key>, ic.id DESC
OrderBefore(sort, a, b) ==
    \/ KeyBefore(sort, a, b)
    \/ ~KeyBefore(sort, b, a) /\ a.id > b.id

RECURSIVE Sorted(_, _)
Sorted(S, sort) ==
    IF S = {} THEN <<>>
    ELSE LET first == CHOOSE a \in S : \A b \in S : ~OrderBefore(sort, b, a)
         IN <<first>> \o Sorted(S \ {first}, sort)

\* mutant: the first page is skipped
Offset_FromPage(req) == req.page * req.per_page
\* offset = (request.page - 1) * request.per_page
Offset(req) == (req.page - 1) * req.per_page

\* LIMIT %s OFFSET %s
LimitOffset(seq, limit, offset) ==
    SubSeq(seq, offset + 1, IF offset + limit < Len(seq) THEN offset + limit ELSE Len(seq))

\* cur.execute(search_query, search_params); rows = cur.fetchall()
SearchRows(req) == LimitOffset(Sorted(Groups(req), req.sort), req.per_page, Offset(req))

\* mutant: the count ignores the WHERE clause
CountTotal_Unfiltered(req) == Cardinality({r.ic.id : r \in ActiveJoin})
\* SELECT COUNT(DISTINCT ic.id) ... {where_clause}
CountTotal(req) == Cardinality({r.ic.id : r \in Matching(req)})

\* ------------------------------------------------- the SQL statements
\* A statement is the text handed to cur.execute, a sequence of pieces of
\* text, and the sequence of its bound parameters.  A parameter is a str or
\* an int.
StrParam(v) == <<"str", v>>
IntParam(n) == <<"int", n>>

\* ",".join(["%s"] * n)
RECURSIVE Placeholders(_)
Placeholders(n) ==
    IF n = 0 THEN <<>>
    ELSE IF n = 1 THEN <<"%s">>
    ELSE Placeholders(n - 1) \o <<",", "%s">>

\* the characters of the values, one after the other
RECURSIVE Flatten(_)
Flatten(values) ==
    IF values = <<>> THEN <<>> ELSE Head(values) \o <<",">> \o Flatten(Tail(values))
\* mutant: the values are written into the text
InCondition_Literals(column, values) == <<column>> \o Flatten(values) \o <<")">>
\* f"ic.brand IN ({placeholders})"
InCondition(column, values) ==
    <<column>> \o Placeholders(Len(values)) \o <<")">>

TextCondition ==
    <<"(ic.title ILIKE ", "%s", " OR ic.brand ILIKE ", "%s",
      " OR ic.category ILIKE ", "%s", ")">>

Present(cond, piece) == IF cond THEN <<piece>> ELSE <<>>

where_conditions(req) ==
    Present(strip(req.q) # <<>>, TextCondition)
    \o Present(req.brands # <<>>, InCondition("ic.brand IN (", req.brands))
    \o Present(req.sizes # <<>>, InCondition("s.size IN (", req.sizes))
    \o Present(req.conditions # <<>>, InCondition("s.condition IN (", req.conditions))
    \o Present(req.marketplaces # <<>>,
               InCondition("s.marketplace_code IN (", req.marketplaces))
    \o Present(~IsNull(req.price_min), <<"s.price_cents >= ", "%s">>)
    \o Present(~IsNull(req.price_max), <<"s.price_cents <= ", "%s">>)

\* like_term = f"%{request.q.strip()}%"
like_term(req) == <<"%">> \o strip(req.q) \o <<"%">>

StrParams(values) == [i \in 1..Len(values) |-> StrParam(values[i])]

\* params, in the order the conditions are appended
params(req) ==
    (IF strip(req.q) # <<>>
     THEN <<StrParam(like_term(req)), StrParam(like_term(req)), StrParam(like_term(req))>>
     ELSE <<>>)
    \o StrParams(req.brands) \o StrParams(req.sizes)
    \o StrParams(req.conditions) \o StrParams(req.marketplaces)
    \o (IF IsNull(req.price_min) THEN <<>>
        ELSE <<IntParam(ToCents(Val(req.price_min)))>>)
    \o (IF IsNull(req.price_max) THEN <<>>
        ELSE <<IntParam(ToCents(Val(req.price_max)))>>)

\* ' AND '.join(where_conditions)
RECURSIVE JoinAnd(_)
JoinAnd(conds) ==
    IF conds = <<>> THEN <<>>
    ELSE IF Len(conds) = 1 THEN conds[1]
    ELSE conds[1] \o <<" AND ">> \o JoinAnd(Tail(conds))

where_clause(req) ==
    IF where_conditions(req) = <<>> THEN <<>>
    ELSE <<"WHERE ">> \o JoinAnd(where_conditions(req))

order_by(sort) ==
    CASE sort = "price_asc" -> "MIN(s.price_cents) ASC NULLS LAST, ic.id DESC"
      [] sort = "price_desc" -> "MIN(s.price_cents) DESC NULLS LAST, ic.id DESC"
      [] sort = "newest" -> "ic.last_seen DESC, ic.id DESC"
      [] OTHER -> "(MIN(s.price_cents) * 0.7 + (1.0 / COUNT(s.*)) * 1000) ASC, ic.id DESC"

FromJoin ==
    "FROM item_canonical ic JOIN item_links l ON l.canonical_id = ic.id AND l.active = true JOIN item_source s ON s.id = l.source_id "

search_query(req) ==
    <<"SELECT ic.id, ic.brand, MIN(s.price_cents) AS price_cents, COUNT(s.*) AS listings_count, ARRAY_AGG(DISTINCT s.seller_url) AS seller_urls ",
      FromJoin>>
    \o where_clause(req)
    \o <<" GROUP BY ic.id ORDER BY ", order_by(req.sort), " LIMIT ", "%s", " OFFSET ", "%s">>

\* search_params = params + [request.per_page, offset]
search_params(req) == params(req) \o <<IntParam(req.per_page), IntParam(Offset(req))>>

count_query(req) ==
    <<"SELECT COUNT(DISTINCT ic.id) as total ", FromJoin>> \o where_clause(req)

\* The statements the try block hands to cur.execute: the search query, and
\* the count query when the search query did not raise.
Statements(req, q) ==
    <<[sql |-> search_query(req), params |-> search_params(req)]>>
    \o (IF q = "ok" THEN <<[sql |-> count_query(req), params |-> params(req)]>> ELSE <<>>)

\* SearchItem(...): seller_urls is List[str], so a NULL among the aggregated
\* seller URLs fails validation.
Coerces(row) == NULL \notin row.seller_urls

SearchItem(row) ==
    [id |-> IdText(row.id), brand |-> row.brand, price_cents |-> row.price_cents,
     listings_count |-> row.listings_count,
     seller_urls |-> {Val(u) : u \in row.seller_urls}]

RECURSIVE SelectSeq2(_, _)
SelectSeq2(seq, keep) ==
    IF seq = <<>> THEN <<>>
    ELSE (IF Head(seq) \in keep THEN <<Head(seq)>> ELSE <<>>)
             \o SelectSeq2(Tail(seq), keep)

\* mutant: floor division
TotalPages_Floor(total, per_page) == total \div per_page
\* total_pages = (total + request.per_page - 1) // request.per_page
TotalPages(total, per_page) == (total + per_page - 1) \div per_page
\* has_more = request.page * request.per_page < total
HasMore(page, per_page, total) == page * per_page < total

SearchResponse(items, total, req) ==
    [status |-> 200, location |-> NULL,
     body |-> [items |-> items, total |-> total, page |-> req.page,
               per_page |-> req.per_page,
               total_pages |-> TotalPages(total, req.per_page),
               has_more |-> HasMore(req.page, req.per_page, total)]]

\* items = [SearchItem(...) for each row]
SearchItems(seq) == [i \in 1..Len(seq) |-> SearchItem(seq[i])]

\* for row in rows: try: items.append(SearchItem(...)) except Exception: continue
app_Items(rows) ==
    SearchItems(SelectSeq2(rows, {r \in {rows[i] : i \in 1..Len(rows)} : Coerces(r)}))

\* The body of the try block of search_items, src/app/main.py.
app_SearchTry(req, q) ==
    CASE q = "db_error" -> HttpError(503)
      [] q = "other_error" -> HttpError(500)
      [] OTHER -> SearchResponse(app_Items(SearchRows(req)), CountTotal(req), req)

\* The input validation at the head of search_items, src/app/main.py: the
\* status it raises, 0 when the request passes.
app_PriceValidation(req) ==
    IF ~IsNull(req.price_min) /\ Val(req.price_min) < 0 THEN 400
    ELSE IF ~IsNull(req.price_max) /\ Val(req.price_max) < 0 THEN 400
    ELSE IF /\ ~IsNull(req.price_min) /\ ~IsNull(req.price_max)
            /\ Val(req.price_min) > Val(req.price_max) THEN 400
    ELSE 0

\* search_items of src/app/main.py, called with a validated SearchRequest.
app_search_items(req, env, q) ==
    IF app_PriceValidation(req) # 0
    THEN [response |-> HttpError(app_PriceValidation(req)), calls |-> NoCalls]
    ELSE IF app_get_db_connection(env) # 0
    THEN [response |-> HttpError(app_get_db_connection(env)), calls |-> NoCalls]
    ELSE [response |-> app_SearchTry(req, q),
          calls |-> [connects |-> 1, queries |-> Len(Statements(req, q)),
                     statements |-> Statements(req, q)]]

\* for row in rows: items.append(SearchItem(...)): the first row that fails
\* raises, and `except Exception` answers 500.
main_SearchTry(req, q) ==
    CASE q \in {"db_error", "other_error"} -> HttpError(500)
      [] \E i \in 1..Len(SearchRows(req)) : ~Coerces(SearchRows(req)[i]) ->
             HttpError(500)
      [] OTHER -> SearchResponse(SearchItems(SearchRows(req)), CountTotal(req), req)

\* search_items of src/main.py, called with a validated SearchRequest.
main_search_items(req, env, q) ==
    IF main_get_db_connection(env) # 0
    THEN [response |-> HttpError(main_get_db_connection(env)), calls |-> NoCalls]
    ELSE [response |-> main_SearchTry(req, q),
          calls |-> [connects |-> 1, queries |-> Len(Statements(req, q)),
                     statements |-> Statements(req, q)]]

\* The pydantic validation of a SearchRequest (body of POST /search, or the
\* model built by search_items_get): TRUE when the model is accepted.
\* mutant: per_page has no upper limit
app_SearchRequestValid_NoLe(req) ==
    /\ req.sort \in SortModes
    /\ req.page >= PageMin /\ req.page <= PageMax
    /\ req.per_page >= PerPageMin

app_SearchRequestValid(req) ==
    /\ req.sort \in SortModes
    /\ req.page >= PageMin /\ req.page <= PageMax
    /\ req.per_page >= PerPageMin /\ req.per_page <= PerPageMax

main_SearchRequestValid(req) ==
    /\ req.sort \in SortModes
    /\ req.page >= PageMin
    /\ req.per_page >= PerPageMin /\ req.per_page <= PerPageMax

\* POST /search, src/app/main.py: the framework validates the body against
\* SearchRequest (422 on failure) and then calls search_items.
app_PostSearch(req, env, q) ==
    IF app_SearchRequestValid(req)
    THEN app_search_items(req, env, q)
    ELSE [response |-> HttpError(422), calls |-> NoCalls]

app_post_search(req, env, q) ==
    /\ Serve
    /\ request' = [endpoint |-> "POST /search", impl |-> "app", raw |-> req,
                   env |-> env, q |-> q]
    /\ response' = app_PostSearch(req, env, q).response
    /\ db_calls' = app_PostSearch(req, env, q).calls
    \* finally: conn.close()
    /\ UNCHANGED <<db, ads, open_conns>>

\* POST /search, src/main.py
main_PostSearch(req, env, q) ==
    IF main_SearchRequestValid(req)
    THEN main_search_items(req, env, q)
    ELSE [response |-> HttpError(422), calls |-> NoCalls]

main_post_search(req, env, q) ==
    /\ Serve
    /\ request' = [endpoint |-> "POST /search", impl |-> "main", raw |-> req,
                   env |-> env, q |-> q]
    /\ response' = main_PostSearch(req, env, q).response
    /\ db_calls' = main_PostSearch(req, env, q).calls
    \* finally: conn.close()
    /\ UNCHANGED <<db, ads, open_conns>>

\* str.split(','): the pieces between the commas
RECURSIVE split(_)
split(s) ==
    IF \A i \in 1..Len(s) : s[i] # ","
    THEN <<s>>
    ELSE LET i == CHOOSE j \in 1..Len(s) :
                      s[j] = "," /\ \A k \in 1..(j - 1) : s[k] # ","
         IN <<SubSeq(s, 1, i - 1)>> \o split(SubSeq(s, i + 1, Len(s)))

RECURSIVE StripNonEmpty(_)
StripNonEmpty(parts) ==
    IF parts = <<>> THEN <<>>
    ELSE (IF strip(Head(parts)) # <<>> THEN <<strip(Head(parts))>> ELSE <<>>)
             \o StripNonEmpty(Tail(parts))

\* [b.strip() for b in brands.split(',') if b.strip()] if brands else []
ListParam(s) == IF s = <<>> THEN <<>> ELSE StripNonEmpty(split(s))

\* mutant: the sort token is passed on as it came
GetToRequest_SortAsSent(g) ==
    [q |-> g.q, brands |-> ListParam(g.brands), sizes |-> ListParam(g.sizes),
     conditions |-> ListParam(g.conditions),
     marketplaces |-> ListParam(g.marketplaces),
     price_min |-> g.price_min, price_max |-> g.price_max,
     sort |-> g.sort, page |-> g.page, per_page |-> g.per_page]

\* The SearchRequest that search_items_get builds from the query string.
GetToRequest(g) ==
    [q |-> g.q, brands |-> ListParam(g.brands), sizes |-> ListParam(g.sizes),
     conditions |-> ListParam(g.conditions),
     marketplaces |-> ListParam(g.marketplaces),
     price_min |-> g.price_min, price_max |-> g.price_max,
     sort |-> IF g.sort \in SortModes THEN g.sort ELSE "best",
     page |-> g.page, per_page |-> g.per_page]

\* Query(1, ge=1) on page and Query(24, ge=1, le=100) on per_page
QueryParamsValid(g) ==
    /\ g.page >= PageMin
    /\ g.per_page >= PerPageMin /\ g.per_page <= PerPageMax

\* GET /search, src/app/main.py: the framework validates the query
\* parameters (422), the handler builds the SearchRequest (a ValidationError
\* becomes 400) and calls search_items.
app_GetSearch(g, env, q) ==
    IF ~QueryParamsValid(g)
    THEN [response |-> HttpError(422), calls |-> NoCalls]
    ELSE IF ~app_SearchRequestValid(GetToRequest(g))
    THEN [response |-> HttpError(400), calls |-> NoCalls]
    ELSE app_search_items(GetToRequest(g), env, q)

app_search_items_get(g, env, q) ==
    /\ Serve
    /\ request' = [endpoint |-> "GET /search", impl |-> "app", raw |-> g,
                   env |-> env, q |-> q]
    /\ response' = app_GetSearch(g, env, q).response
    /\ db_calls' = app_GetSearch(g, env, q).calls
    /\ UNCHANGED <<db, ads, open_conns>>

\* GET /search, src/main.py: a ValidationError raised while building the
\* SearchRequest is not caught and answers 500.
main_GetSearch(g, env, q) ==
    IF ~QueryParamsValid(g)
    THEN [response |-> HttpError(422), calls |-> NoCalls]
    ELSE IF ~main_SearchRequestValid(GetToRequest(g))
    THEN [response |-> HttpError(500), calls |-> NoCalls]
    ELSE main_search_items(GetToRequest(g), env, q)

main_search_items_get(g, env, q) ==
    /\ Serve
    /\ request' = [endpoint |-> "GET /search", impl |-> "main", raw |-> g,
                   env |-> env, q |-> q]
    /\ response' = main_GetSearch(g, env, q).response
    /\ db_calls' = main_GetSearch(g, env, q).calls
    /\ UNCHANGED <<db, ads, open_conns>>

\* ---------------------------------------------------------- GET /health
\* health_check of src/app/main.py: every exception of the try block,
\* get_db_connection's HTTPException included, is answered 503; conn.close()
\* is reached only when the cursor block raised nothing.
app_health_check(env, q) ==
    /\ Serve
    /\ request' = [endpoint |-> "GET /health", impl |-> "app", raw |-> <<>>,
                   env |-> env, q |-> q]
    /\ IF app_get_db_connection(env) # 0
       THEN /\ response' = HttpError(503)
            /\ db_calls' = NoCalls
            /\ open_conns' = open_conns
       ELSE IF q # "ok"
       THEN /\ response' = HttpError(503)
            /\ db_calls' = [connects |-> 1, queries |-> 1]
            /\ open_conns' = open_conns + 1
       ELSE /\ response' = [status |-> 200, location |-> NULL, body |-> NoBody]
            /\ db_calls' = [connects |-> 1, queries |-> 1]
            /\ open_conns' = open_conns
    /\ UNCHANGED <<db, ads>>

\* health_check of src/main.py touches no database.
main_health_check ==
    /\ Serve
    /\ request' = [endpoint |-> "GET /health", impl |-> "main", raw |-> <<>>,
                   env |-> "ok", q |-> "ok"]
    /\ response' = [status |-> 200, location |-> NULL, body |-> NoBody]
    /\ db_calls' = NoCalls
    /\ UNCHANGED <<db, ads, open_conns>>

\* ------------------------------------------------------------------ /ads
\* What the driver can do to a handler of src/app/webcloset_api.py:
\* psycopg2.connect raises, conn.cursor() raises, a statement or the commit
\* raises, or nothing does.
AdOutcomes == {"connect_error", "cursor_error", "query_error", "ok"}

\* SELECT ... FROM item_source AS t1 INNER JOIN item_links AS t2
\*   ON t1.id = t2.source_id WHERE t2.canonical_id = %s
Product(id) ==
    {s \in item_source :
        \E l \in item_links : l.source_id = s.id /\ IdText(l.canonical_id) = id}

\* generate_group_ad_script: min() and max() of the prices, and their
\* division by 100, raise a TypeError when a price is None.
ScriptFails(product) == \E s \in product : IsNull(s.price_cents)

generate_group_ad_script(product) ==
    [text |-> "generated",
     lowest_price |-> SetMin({Val(s.price_cents) : s \in product}),
     highest_price |-> SetMax({Val(s.price_cents) : s \in product})]

Edited(text) == [text |-> text, lowest_price |-> 0, highest_price |-> 0]

OkResponse == [status |-> 200, location |-> NULL, body |-> NoBody]

\* conn = get_db_connection(); cursor = conn.cursor() stand before the try
\* block: when connect raises there is no connection, when cursor() raises
\* the connection is open and nothing closes it.  Both answer 500.
AdsAcquire(outcome) ==
    /\ outcome \in {"connect_error", "cursor_error"}
    /\ response' = HttpError(500)
    /\ db_calls' = [connects |-> IF outcome = "cursor_error" THEN 1 ELSE 0,
                    queries |-> 0]
    /\ open_conns' = IF outcome = "cursor_error" THEN open_conns + 1 ELSE open_conns
    /\ UNCHANGED ads

\* generate_ad: the ad row and its version 1 are inserted in one transaction.
ads_generate_ad(id, outcome) ==
    /\ Serve
    /\ request' = [endpoint |-> "POST /ads/generate", impl |-> "ads", raw |-> id,
                   env |-> outcome, q |-> outcome]
    /\ \/ AdsAcquire(outcome)
       \/ /\ outcome \in {"query_error", "ok"}
          /\ db_calls' = [connects |-> 1, queries |-> 1]
          \* finally: cursor.close(); conn.close()
          /\ open_conns' = open_conns
          /\ IF outcome = "query_error"
             THEN response' = HttpError(500) /\ UNCHANGED ads
             ELSE IF Product(id) = {}
             THEN response' = HttpError(404) /\ UNCHANGED ads
             ELSE IF ScriptFails(Product(id))
             THEN response' = HttpError(500) /\ UNCHANGED ads
             ELSE LET ad_id == Len(ad_generators) + 1
                      script == generate_group_ad_script(Product(id))
                  IN /\ ad_generators' = Append(ad_generators,
                            [id |-> ad_id, canonical_product_id |-> id,
                             generated_script |-> script])
                     /\ ad_generator_versions' = Append(ad_generator_versions,
                            [ad_generator_id |-> ad_id, version_number |-> 1,
                             script_body |-> script])
                     /\ response' = OkResponse
    /\ UNCHANGED db

\* SELECT id FROM ad_generators WHERE canonical_product_id = %s
\*   ORDER BY created_at DESC LIMIT 1
LatestAd(id) ==
    LET own == {i \in 1..Len(ad_generators) :
                   ad_generators[i].canonical_product_id = id}
    IN IF own = {} THEN 0 ELSE SetMax(own)

\* SELECT COALESCE(MAX(version_number), 0) + 1 FROM ad_generator_versions
\*   WHERE ad_generator_id = %s
NextVersion(ad_id) ==
    LET vs == {ad_generator_versions[i].version_number :
                   i \in {j \in 1..Len(ad_generator_versions) :
                             ad_generator_versions[j].ad_generator_id = ad_id}}
    IN IF vs = {} THEN 1 ELSE SetMax(vs) + 1

\* update_latest_ad: the latest ad of the product gets the new script and a
\* new version row, in one transaction.
ads_update_latest_ad(id, script_body, outcome) ==
    /\ Serve
    /\ request' = [endpoint |-> "PATCH /ads/product", impl |-> "ads", raw |-> id,
                   env |-> outcome, q |-> outcome]
    /\ \/ AdsAcquire(outcome)
       \/ /\ outcome \in {"query_error", "ok"}
          /\ db_calls' = [connects |-> 1, queries |-> 1]
          \* finally: cursor.close(); conn.close()
          /\ open_conns' = open_conns
          /\ IF outcome = "query_error"
             THEN response' = HttpError(500) /\ UNCHANGED ads
             ELSE IF LatestAd(id) = 0
             THEN response' = HttpError(404) /\ UNCHANGED ads
             ELSE LET ad_id == LatestAd(id)
                  IN /\ ad_generators' =
                            [ad_generators EXCEPT ![ad_id].generated_script = script_body]
                     /\ ad_generator_versions' = Append(ad_generator_versions,
                            [ad_generator_id |-> ad_id,
                             version_number |-> NextVersion(ad_id),
                             script_body |-> script_body])
                     /\ response' = OkResponse
    /\ UNCHANGED db

\* list_ads_for_product reads ad_generators, with the same acquisition.
ads_list_ads_for_product(id, outcome) ==
    /\ Serve
    /\ request' = [endpoint |-> "GET /ads/product", impl |-> "ads", raw |-> id,
                   env |-> outcome, q |-> outcome]
    /\ \/ AdsAcquire(outcome)
       \/ /\ outcome \in {"query_error", "ok"}
          /\ db_calls' = [connects |-> 1, queries |-> 1]
          \* finally: cursor.close(); conn.close()
          /\ open_conns' = open_conns
          /\ response' = IF outcome = "query_error" THEN HttpError(500) ELSE OkResponse
          /\ UNCHANGED ads
    /\ UNCHANGED db

\* ------------------------------------ /ads, one statement at a time
\* The handlers above run a request in one step.  Below, a request is a
\* transaction of a worker thread that runs one statement per step, under
\* READ COMMITTED: a statement sees the rows committed before it starts, the
\* rows a transaction writes are seen by the others once it commits, and an
\* UPDATE of a row waits while another transaction holds the lock of the
\* row.  The tables hold the committed rows; the rows a transaction has
\* written and not yet committed are in its txns entry.

\* A request is handed to an idle worker, which opens its connection and
\* cursor.
TxnBegin(w, kind, id, body) ==
    /\ pending > 0 /\ pending' = pending - 1
    /\ txns[w].pc = "idle"
    /\ txns' = [txns EXCEPT ![w] = [pc |-> "select", kind |-> kind, id |-> id,
                                    body |-> body, ad_id |-> 0, version |-> 0]]
    /\ UNCHANGED <<db, ads, request, response, db_calls, open_conns, previous>>

tx_begin_generate_ad(w, id) == TxnBegin(w, "generate", id, NoScript)

tx_begin_update_latest_ad(w, id, script_body) == TxnBegin(w, "update", id, script_body)

\* The handler of worker w returns or raises: the connection is closed in
\* the finally block, which rolls back what was not committed.
TxnEnd(w, resp) ==
    /\ txns' = [txns EXCEPT ![w] = IdleTxn]
    /\ request' = [endpoint |-> IF txns[w].kind = "generate" THEN "POST /ads/generate"
                                ELSE "PATCH /ads/product",
                   impl |-> "ads", raw |-> txns[w].id, env |-> "ok", q |-> "ok"]
    /\ response' = resp
    /\ db_calls' = [connects |-> 1, queries |-> 1]
    /\ previous' = [request |-> request, response |-> response]
    /\ UNCHANGED <<db, open_conns, pending>>

TxnStep(w, pc, kind) == txns[w].pc = pc /\ txns[w].kind = kind

Continue(w, next) ==
    /\ txns' = [txns EXCEPT ![w].pc = next]
    /\ UNCHANGED <<db, ads, request, response, db_calls, open_conns, pending, previous>>

\* generate_ad: SELECT the product's listings, and build the script
tx_generate_select(w) ==
    /\ TxnStep(w, "select", "generate")
    /\ IF Product(txns[w].id) = {}
       THEN TxnEnd(w, HttpError(404)) /\ UNCHANGED ads
       ELSE IF ScriptFails(Product(txns[w].id))
       THEN TxnEnd(w, HttpError(500)) /\ UNCHANGED ads
       ELSE /\ txns' = [txns EXCEPT ![w].pc = "insert_ad",
                                    ![w].body = generate_group_ad_script(Product(txns[w].id))]
            /\ UNCHANGED <<db, ads, request, response, db_calls, open_conns,
                           pending, previous>>

\* the ids that the sequence of ad_generators.id has handed out
AdIdsInUse ==
    {ad_generators[i].id : i \in 1..Len(ad_generators)}
        \cup {txns[w].ad_id : w \in Workers}

\* generate_ad: INSERT INTO ad_generators ... RETURNING id
tx_generate_insert_ad(w) ==
    /\ TxnStep(w, "insert_ad", "generate")
    /\ txns' = [txns EXCEPT ![w].pc = "insert_version",
                            ![w].ad_id = SetMax(AdIdsInUse \cup {0}) + 1]
    /\ UNCHANGED <<db, ads, request, response, db_calls, open_conns, pending, previous>>

\* generate_ad: INSERT INTO ad_generator_versions ... VALUES (%s, 1, %s)
tx_generate_insert_version(w) ==
    /\ TxnStep(w, "insert_version", "generate")
    /\ txns' = [txns EXCEPT ![w].pc = "commit", ![w].version = 1]
    /\ UNCHANGED <<db, ads, request, response, db_calls, open_conns, pending, previous>>

\* update_latest_ad: SELECT id FROM ad_generators WHERE canonical_product_id
\* = %s ORDER BY created_at DESC LIMIT 1.  created_at is given by the
\* database, and among transactions that overlap its order need not be the
\* order of the commits: any committed ad of the product may be the latest.
tx_update_select(w) ==
    /\ TxnStep(w, "select", "update")
    /\ IF LatestAd(txns[w].id) = 0
       THEN TxnEnd(w, HttpError(404)) /\ UNCHANGED ads
       ELSE /\ \E i \in 1..Len(ad_generators) :
                  /\ ad_generators[i].canonical_product_id = txns[w].id
                  /\ txns' = [txns EXCEPT ![w].pc = "update",
                                          ![w].ad_id = ad_generators[i].id]
            /\ UNCHANGED <<db, ads, request, response, db_calls, open_conns,
                           pending, previous>>

\* mutant: an UPDATE never waits
RowLocked_Never(ad_id, w) == FALSE
\* Another transaction has updated the row of the ad and has not ended.
RowLocked(ad_id, w) ==
    \E o \in Workers \ {w} :
        /\ txns[o].kind = "update" /\ txns[o].ad_id = ad_id
        /\ txns[o].pc \in {"insert_version", "commit"}

\* update_latest_ad: UPDATE ad_generators SET generated_script = %s ...
\* WHERE id = %s
tx_update_update(w) ==
    /\ TxnStep(w, "update", "update")
    /\ ~RowLocked(txns[w].ad_id, w)
    /\ Continue(w, "insert_version")

\* update_latest_ad: INSERT INTO ad_generator_versions ... (SELECT
\* COALESCE(MAX(version_number),0)+1 ...)
tx_update_insert_version(w) ==
    /\ TxnStep(w, "insert_version", "update")
    /\ txns' = [txns EXCEPT ![w].pc = "commit",
                            ![w].version = NextVersion(txns[w].ad_id)]
    /\ UNCHANGED <<db, ads, request, response, db_calls, open_conns, pending, previous>>

\* conn.commit(): the rows of the transaction join the tables
tx_commit(w) ==
    /\ txns[w].pc = "commit"
    /\ ad_generators' =
           IF txns[w].kind = "generate"
           THEN Append(ad_generators,
                       [id |-> txns[w].ad_id, canonical_product_id |-> txns[w].id,
                        generated_script |-> txns[w].body])
           ELSE [i \in 1..Len(ad_generators) |->
                    IF ad_generators[i].id = txns[w].ad_id
                    THEN [ad_generators[i] EXCEPT !.generated_script = txns[w].body]
                    ELSE ad_generators[i]]
    /\ ad_generator_versions' =
           Append(ad_generator_versions,
                  [ad_generator_id |-> txns[w].ad_id,
                   version_number |-> txns[w].version,
                   script_body |-> txns[w].body])
    /\ TxnEnd(w, OkResponse)

\* mutant: every statement is committed as it runs, so the statements that
\* ran before the failure stay
tx_abort_Autocommit(w) ==
    /\ txns[w].pc # "idle"
    /\ TxnEnd(w, HttpError(500))
    /\ ad_generators' =
           IF txns[w].pc \notin {"insert_version", "commit"}
           THEN ad_generators
           ELSE IF txns[w].kind = "generate"
           THEN Append(ad_generators,
                       [id |-> txns[w].ad_id, canonical_product_id |-> txns[w].id,
                        generated_script |-> txns[w].body])
           ELSE [i \in 1..Len(ad_generators) |->
                    IF ad_generators[i].id = txns[w].ad_id
                    THEN [ad_generators[i] EXCEPT !.generated_script = txns[w].body]
                    ELSE ad_generators[i]]
    /\ ad_generator_versions' =
           IF txns[w].pc = "commit"
           THEN Append(ad_generator_versions,
                       [ad_generator_id |-> txns[w].ad_id,
                        version_number |-> txns[w].version,
                        script_body |-> txns[w].body])
           ELSE ad_generator_versions
\* A statement or the commit raises: the handler has no except clause, the
\* finally block closes the connection and the request is answered 500.
tx_abort(w) ==
    /\ txns[w].pc # "idle"
    /\ TxnEnd(w, HttpError(500))
    /\ UNCHANGED ads

\* ------------------------------------------------- specification: /click
\* What the environment does to one request: the connection attempt, and
\* the query when the connection was made.
Outcomes ==
    {<<env, "ok">> : env \in ConnectOutcomes \ {"ok"}} \cup
    {<<"ok", q>> : q \in QueryOutcomes}

ClickUrls ==
    {NULL, Some(<<>>), Some(Text_http \o <<"a">>), Some(Text_https \o <<"a">>),
     Some(Text_ftp \o <<"a">>)}
ClickPrices == {NULL, Some(4000), Some(8000)}
ClickListings ==
    SetToSeq(Listings({Unlinked} \cup LinksTo(1..MaxLinked), ClickPrices, ClickUrls,
                      {SizeM}, {CondNew}, {Ebay}))
\* the ids a caller sends: blank ones, the known ones, and an unknown one
ClickIds == {<<>>, <<SP>>} \cup {IdText(n) : n \in 1..(MaxItems + 1)}

InitClick ==
    /\ DbInit({Plain}, ClickListings, MaxSources)
    /\ IdleInit(1)

NextClick ==
    \/ \E id \in ClickIds, o \in Outcomes : app_redirect_to_seller(id, o[1], o[2])
    \/ \E id \in ClickIds, o \in Outcomes : main_redirect_to_seller(id, o[1], o[2])

SpecClick == InitClick /\ [][NextClick]_vars

\* The last request was a GET /click that reached the lookup query with the
\* database answering.
ClickLookedUp ==
    /\ request.endpoint = "GET /click"
    /\ request.env = "ok" /\ request.q = "ok"
    /\ strip(request.raw) # <<>>

\* C1: a GET /click whose lookup query returns no row (unknown item, or an
\* item with no active listing) is answered with status 404, by both
\* redirect_to_seller handlers.
C1_ClickMissingIs404 ==
    (ClickLookedUp /\ ClickRows(request.raw) = {}) => response.status = 404

\* C2: a GET /click on an item whose lowest-price active seller URL is empty
\* or has no http:// or https:// prefix is never answered with a 302
\* redirect; its status is 400 or 422, for both handlers.
C2_ClickBadUrlRejected ==
    (/\ ClickLookedUp
     /\ ClickRows(request.raw) # {}
     /\ \A r \in ClickRows(request.raw) : app_InvalidSellerUrl(r.s.seller_url))
        => response.status # 302 /\ response.status \in {400, 422}

\* ------------------------------------------- specification: the filters
FilterPrices == {NULL, Some(4000), Some(8000)}
\* active links to the first items, and an inactive link
FilterLinks == {<<c, TRUE>> : c \in 1..MaxLinked} \cup {<<1, FALSE>>}
FilterListings ==
    SetToSeq(Listings(FilterLinks, FilterPrices, {Some(GoodUrl)},
                      {SizeS, SizeM}, {CondNew}, {Ebay}))

\* price_min / price_max as a caller sends them, in dollars
PriceMins == {NULL, Some(Mills(50)), Some(80005), Some(-5)}
PriceMaxs == {NULL, Some(Mills(100)), Some(79999)}

FilterRequests ==
    [q : {<<>>}, brands : {<<>>}, sizes : {<<>>, <<SizeS>>}, conditions : {<<>>},
     marketplaces : {<<>>}, price_min : PriceMins, price_max : PriceMaxs,
     sort : {"best"}, page : {DefaultPage}, per_page : {DefaultPerPage}]

InitFilter ==
    /\ DbInit({Plain}, FilterListings, MaxSources)
    /\ IdleInit(1)

NextFilter ==
    \/ \E req \in FilterRequests : app_post_search(req, "ok", "ok")
    \/ \E req \in FilterRequests : main_post_search(req, "ok", "ok")

SpecFilter == InitFilter /\ [][NextFilter]_vars

PostSearch == request.endpoint = "POST /search"

\* C4: a POST /search with price_min > price_max is rejected with a
\* validation error (400 or 422) and opens no connection and executes no
\* query, in both search_items handlers.
C4_BadRangeFailsFast ==
    (/\ PostSearch
     /\ ~IsNull(request.raw.price_min) /\ ~IsNull(request.raw.price_max)
     /\ Val(request.raw.price_min) > Val(request.raw.price_max))
        => /\ response.status \in {400, 422}
           /\ db_calls = NoCalls

ItemsOf(resp) == {resp.body.items[i] : i \in 1..Len(resp.body.items)}

\* cents >= trunc(mills / 10) and cents <= trunc(mills / 10), without the
\* conversion of the handlers
AtLeastCents(cents, mills) ==
    IF mills >= 0 THEN 10 * cents + 9 >= mills ELSE 10 * cents >= mills
AtMostCents(cents, mills) ==
    IF mills >= 0 THEN 10 * cents <= mills ELSE 10 * cents < mills + 10

\* C7: every item a /search returns has price_cents >= price_min in cents
\* when price_min is given, and price_cents <= price_max in cents when
\* price_max is given.
C7_PriceRange ==
    (PostSearch /\ response.status = 200) =>
        \A it \in ItemsOf(response) :
            /\ ~IsNull(request.raw.price_min) =>
                   /\ ~IsNull(it.price_cents)
                   /\ AtLeastCents(Val(it.price_cents), Val(request.raw.price_min))
            /\ ~IsNull(request.raw.price_max) =>
                   /\ ~IsNull(it.price_cents)
                   /\ AtMostCents(Val(it.price_cents), Val(request.raw.price_max))

\* A search with both bounds returned an item although the price filter
\* excluded a listing.
C7_Witness ==
    /\ PostSearch /\ response.status = 200
    /\ ~IsNull(request.raw.price_min) /\ ~IsNull(request.raw.price_max)
    /\ response.body.items # <<>>
    /\ \E r \in ActiveJoin :
           /\ ~IsNull(r.s.price_cents)
           /\ ~AtLeastCents(Val(r.s.price_cents), Val(request.raw.price_min))

\* The listings of the item with id text `id` reached through an active link.
ActiveListings(id) == {r.s : r \in {o \in ActiveJoin : IdText(o.ic.id) = id}}

\* The listing passes the listing-level filters of the request.
PassesFilters(req, s) ==
    /\ req.sizes # <<>> => s.size \in {req.sizes[i] : i \in 1..Len(req.sizes)}
    /\ req.conditions # <<>> =>
           s.condition \in {req.conditions[i] : i \in 1..Len(req.conditions)}
    /\ req.marketplaces # <<>> =>
           s.marketplace_code \in {req.marketplaces[i] : i \in 1..Len(req.marketplaces)}
    /\ ~IsNull(req.price_min) =>
           ~IsNull(s.price_cents) /\ AtLeastCents(Val(s.price_cents), Val(req.price_min))
    /\ ~IsNull(req.price_max) =>
           ~IsNull(s.price_cents) /\ AtMostCents(Val(s.price_cents), Val(req.price_max))

\* price is the minimum of the non-NULL prices of the listings, NULL when
\* there is none
IsMinPriceOf(price, listings) ==
    LET priced == {s \in listings : ~IsNull(s.price_cents)}
    IN IF priced = {} THEN IsNull(price)
       ELSE /\ ~IsNull(price)
            /\ \E s \in priced : s.price_cents = price
            /\ \A s \in priced : Val(price) <= Val(s.price_cents)

\* C8 as stated: whatever the filters, price_cents of a returned item is the
\* minimum price over all its listings reached through an active link, and
\* listings_count is the number of those listings.
C8_AggregatesOverAllListings ==
    (PostSearch /\ response.status = 200) =>
        \A it \in ItemsOf(response) :
            /\ IsMinPriceOf(it.price_cents, ActiveListings(it.id))
            /\ it.listings_count = Cardinality(ActiveListings(it.id))

\* C8 amended: price_cents of a returned item is the minimum price over its
\* listings reached through an active link that pass the request's
\* listing-level filters (size, condition, marketplace, price range), and
\* listings_count is the number of those listings.
C8_AggregatesOverMatchingListings ==
    (PostSearch /\ response.status = 200) =>
        \A it \in ItemsOf(response) :
            LET kept == {s \in ActiveListings(it.id) : PassesFilters(request.raw, s)}
            IN /\ IsMinPriceOf(it.price_cents, kept)
               /\ it.listings_count = Cardinality(kept)
               /\ it.listings_count >= 1

\* A returned item has a priced listing that passes a filter which is
\* present and another listing that the filter excludes.
C8_Witness ==
    /\ PostSearch /\ response.status = 200
    /\ request.raw.sizes # <<>> \/ ~IsNull(request.raw.price_min)
    /\ \E it \in ItemsOf(response) :
           /\ \E s \in ActiveListings(it.id) : ~PassesFilters(request.raw, s)
           /\ ~IsNull(it.price_cents)

\* the canonical items that have a listing behind a link with active = true
WithActiveListing ==
    {c \in item_canonical :
        \E l \in item_links :
            /\ l.canonical_id = c.id /\ l.active
            /\ \E s \in item_source : s.id = l.source_id}

NoFilter(req) ==
    /\ strip(req.q) = <<>> /\ req.brands = <<>> /\ req.sizes = <<>>
    /\ req.conditions = <<>> /\ req.marketplaces = <<>>
    /\ IsNull(req.price_min) /\ IsNull(req.price_max)

\* C15: every item a /search returns aggregates at least one listing
\* reached through a link with active = true, and a canonical item whose
\* links are all inactive or absent is not among the items and is not
\* counted in total.
C15_ActiveLinksOnly ==
    (PostSearch /\ response.status = 200) =>
        /\ \A it \in ItemsOf(response) :
               /\ it.listings_count >= 1
               /\ \E c \in WithActiveListing : IdText(c.id) = it.id
        /\ response.body.total <= Cardinality(WithActiveListing)
        /\ NoFilter(request.raw) =>
               /\ response.body.total = Cardinality(WithActiveListing)
               /\ {it.id : it \in ItemsOf(response)}
                      = {IdText(c.id) : c \in WithActiveListing}

\* An unfiltered search returned one item while another item has a listing
\* behind an inactive link only.
C15_Witness ==
    /\ PostSearch /\ response.status = 200 /\ NoFilter(request.raw)
    /\ Len(response.body.items) = 1 /\ response.body.total = 1
    /\ \E l \in item_links :
           /\ ~l.active
           /\ \A c \in WithActiveListing : c.id # l.canonical_id

\* ------------------------------------------ specification: pagination
PagingListings ==
    SetToSeq(Listings(LinksTo(ItemIds), {Some(4000)}, {Some(GoodUrl)}, {SizeM},
                      {CondNew}, {Ebay}))

\* page and per_page as a caller sends them: around the limits of the model
Pages == {0, 1, 2, 3, PageMax, PageMax + 1}
PerPages == {0, 1, 2, 3, PerPageMax, PerPageMax + 1}

PagingRequests ==
    [q : {<<>>}, brands : {<<>>}, sizes : {<<>>}, conditions : {<<>>}, marketplaces : {<<>>},
     price_min : {NULL}, price_max : {NULL}, sort : {"best"},
     page : Pages, per_page : PerPages]

InitPaging ==
    /\ DbInit({Plain}, PagingListings, MaxItems)
    /\ IdleInit(1)

NextPaging ==
    \/ \E req \in PagingRequests : app_post_search(req, "ok", "ok")
    \/ \E req \in PagingRequests : main_post_search(req, "ok", "ok")
    \/ \E g \in PagingRequests : app_search_items_get(g, "ok", "ok")
    \/ \E g \in PagingRequests : main_search_items_get(g, "ok", "ok")

SpecPaging == InitPaging /\ [][NextPaging]_vars

Search == request.endpoint \in {"POST /search", "GET /search"}

\* n = ceil(total / per_page), for per_page >= 1 and total >= 0
IsCeilDiv(n, total, per_page) ==
    /\ n >= 0
    /\ n * per_page >= total
    /\ n > 0 => (n - 1) * per_page < total

\* C5: in every successful /search response total_pages = ceil(total /
\* per_page) and has_more = (page * per_page < total); total = 0 gives
\* total_pages = 0 and has_more = FALSE.
C5_PageInfo ==
    (Search /\ response.status = 200) =>
        LET b == response.body
        IN /\ b.total >= 0 /\ b.per_page \in PerPageMin..PerPageMax
           /\ IsCeilDiv(b.total_pages, b.total, b.per_page)
           /\ b.has_more = (b.page * b.per_page < b.total)
           /\ b.total = 0 => (b.total_pages = 0 /\ ~b.has_more)

\* a response whose last page is not full, and one with no match
C5_Witness ==
    /\ Search /\ response.status = 200
    /\ response.body.total = 3 /\ response.body.per_page = 2
    /\ response.body.total_pages = 2 /\ response.body.has_more

C5_WitnessEmpty ==
    /\ Search /\ response.status = 200
    /\ response.body.total = 0 /\ response.body.total_pages = 0

BadPagination(raw) ==
    raw.per_page < 1 \/ raw.per_page > 100 \/ raw.page < 1

\* C9: a /search request (GET or POST) with per_page < 1, per_page > 100 or
\* page < 1 is rejected with a validation error and touches no database;
\* every request that reaches query execution has per_page in [1,100] and
\* page >= 1, and is answered with the per_page and page it sent.
C9_PaginationRejected ==
    Search =>
        /\ BadPagination(request.raw) =>
               response.status \in {400, 422} /\ db_calls = NoCalls
        /\ db_calls.queries > 0 =>
               /\ request.raw.per_page \in 1..100 /\ request.raw.page >= 1
        /\ response.status = 200 =>
               /\ response.body.per_page = request.raw.per_page
               /\ response.body.page = request.raw.page
               /\ Len(response.body.items) <= request.raw.per_page

C9_Witness ==
    /\ Search /\ request.raw.per_page = 101 /\ request.raw.page = 1
    /\ response.status = 422

\* ------------------------------------------- specification: sort tokens
Recent == [i \in ItemIds |-> [brand |-> Nike, last_seen |-> i]]
Older == [i \in ItemIds |-> [brand |-> Nike, last_seen |-> MaxItems + 1 - i]]

SortListings ==
    SetToSeq(Listings(LinksTo(1..MaxLinked), {Some(4000), Some(8000)},
                      {Some(GoodUrl)}, {SizeM}, {CondNew}, {Ebay}))

\* the sort tokens a caller sends: the four modes and two unknown ones
SortTokens == SortModes \cup {"bogus", ""}

SortRequests ==
    [q : {<<>>}, brands : {<<>>}, sizes : {<<>>}, conditions : {<<>>}, marketplaces : {<<>>},
     price_min : {NULL}, price_max : {NULL}, sort : SortTokens,
     page : {DefaultPage}, per_page : {DefaultPerPage}]

InitSort ==
    /\ DbInit({Plain, Recent, Older}, SortListings, MaxSources)
    /\ IdleInit(1)

NextSort ==
    \/ \E req \in SortRequests : app_post_search(req, "ok", "ok")
    \/ \E req \in SortRequests : main_post_search(req, "ok", "ok")
    \/ \E g \in SortRequests : app_search_items_get(g, "ok", "ok")
    \/ \E g \in SortRequests : main_search_items_get(g, "ok", "ok")

SpecSort == InitSort /\ [][NextSort]_vars

\* What the endpoint and file of the last request answer to `raw`.
Answer(raw) ==
    CASE request.endpoint = "POST /search" /\ request.impl = "app" ->
             app_PostSearch(raw, request.env, request.q).response
      [] request.endpoint = "POST /search" /\ request.impl = "main" ->
             main_PostSearch(raw, request.env, request.q).response
      [] request.endpoint = "GET /search" /\ request.impl = "app" ->
             app_GetSearch(raw, request.env, request.q).response
      [] request.endpoint = "GET /search" /\ request.impl = "main" ->
             main_GetSearch(raw, request.env, request.q).response

\* The response is the one a request with sort = best gets, and its items
\* are in ascending order of the best score.
ProcessedAsBest ==
    /\ response.status = 200
    /\ response = Answer([request.raw EXCEPT !.sort = "best"])
    /\ \A i, j \in 1..Len(response.body.items) :
           i < j => ~BestBefore(response.body.items[j], response.body.items[i])

UnknownSort == Search /\ request.raw.sort \notin SortModes

\* C10 as stated: a /search request with an unknown sort token is not
\* rejected and is processed exactly as sort = best, on GET and on POST.
C10_UnknownSortIsBest == UnknownSort => ProcessedAsBest

\* C10 amended: GET /search processes an unknown sort token exactly as
\* sort = best; POST /search rejects it with 422 before any database call.
C10_UnknownSortGetBestPostRejected ==
    /\ (UnknownSort /\ request.endpoint = "GET /search") => ProcessedAsBest
    /\ (UnknownSort /\ request.endpoint = "POST /search") =>
           response.status = 422 /\ db_calls = NoCalls

\* A GET with an unknown token answered with two items, in an order that
\* sort = price_desc would not give.
C10_Witness ==
    /\ UnknownSort /\ request.endpoint = "GET /search"
    /\ response.status = 200 /\ Len(response.body.items) >= 2
    /\ response # Answer([request.raw EXCEPT !.sort = "price_desc"])

\* ------------------------------------- specification: walking the pages
CrawlListings ==
    SetToSeq(Listings({Unlinked} \cup {<<c, TRUE>> : c \in ItemIds},
                      {Some(4000), Some(8000)}, {Some(GoodUrl), NULL}, {SizeM},
                      {CondNew}, {Ebay}))

\* the first page of a walk, for each sort mode and page size
CrawlRequests ==
    [q : {<<>>}, brands : {<<>>}, sizes : {<<>>}, conditions : {<<>>}, marketplaces : {<<>>},
     price_min : {NULL, Some(Mills(50))}, price_max : {NULL}, sort : SortModes,
     page : {1}, per_page : {1, 2}]

InitCrawl ==
    /\ DbInit({Plain, Recent, Older}, CrawlListings, MaxSources)
    /\ IdleInit(1)

NextCrawl ==
    \E req \in CrawlRequests : app_post_search(req, "ok", "ok")

SpecCrawl == InitCrawl /\ [][NextCrawl]_vars

\* the item ids of a response, in order; none when it is an error
IdsOf(resp) ==
    IF resp.status = 200
    THEN [i \in 1..Len(resp.body.items) |-> resp.body.items[i].id]
    ELSE <<>>

\* The ids of pages p..last of the walk that the last request started, every
\* page asked with the same filter, sort and per_page.
RECURSIVE ConcatPages(_, _)
ConcatPages(p, last) ==
    IF p > last THEN <<>>
    ELSE IdsOf(Answer([request.raw EXCEPT !.page = p])) \o ConcatPages(p + 1, last)

Walk == ConcatPages(1, response.body.total_pages)

\* the canonical items with a listing that is reached through an active link
\* and passes the filters of the request
MatchingIds ==
    {IdText(r.ic.id) : r \in {o \in ActiveJoin : PassesFilters(request.raw, o.s)}}

\* those whose kept listings all have a seller URL
CoercibleIds ==
    {id \in MatchingIds :
        \A s \in ActiveListings(id) :
            PassesFilters(request.raw, s) => ~IsNull(s.seller_url)}

ExactlyOnce(seq, S) ==
    /\ {seq[i] : i \in 1..Len(seq)} = S
    /\ Len(seq) = Cardinality(S)

WalkStarted ==
    /\ request.endpoint = "POST /search" /\ request.impl = "app"
    /\ response.status = 200 /\ request.raw.page = 1

\* C6 as stated: the pages 1..total_pages of /search, concatenated, hold
\* every matching canonical item id exactly once, in every sort mode.
C6_PagesHoldEveryMatch == WalkStarted => ExactlyOnce(Walk, MatchingIds)

\* C6 amended: with total_pages <= 1000, the pages 1..total_pages hold
\* exactly once the id of every matching canonical item whose aggregated row
\* coerces into a SearchItem (no NULL among its seller URLs); the id of a
\* matching item whose row fails coercion is on no page, though total counts
\* it.
C6_PagesHoldEveryCoercibleMatch ==
    (WalkStarted /\ response.body.total_pages <= PageMax) =>
        /\ ExactlyOnce(Walk, CoercibleIds)
        /\ response.body.total = Cardinality(MatchingIds)

\* a walk of two pages, and a walk that loses an item
C6_Witness ==
    /\ WalkStarted /\ response.body.total_pages = 2
    /\ Len(Walk) = 2

C6_WitnessDropped ==
    /\ WalkStarted /\ response.body.total_pages = 2
    /\ Len(Walk) = 1

\* ------------------------------------------ specification: connections
ConnListings ==
    SetToSeq(Listings({Unlinked, <<1, TRUE>>}, {Some(4000), NULL}, {Some(GoodUrl)},
                      {SizeM}, {CondNew}, {Ebay}))

ConnRequest ==
    [q |-> <<>>, brands |-> <<>>, sizes |-> <<>>, conditions |-> <<>>,
     marketplaces |-> <<>>,
     price_min |-> Some(Mills(50)), price_max |-> Some(Mills(40)), sort |-> "best",
     page |-> DefaultPage, per_page |-> DefaultPerPage]

ConnIds == {IdText(1), IdText(MaxItems + 1)}

InitConn ==
    /\ DbInit({Plain}, ConnListings, MaxSources)
    /\ IdleInit(MaxRepeats)

NextConn ==
    \/ \E o \in Outcomes : app_health_check(o[1], o[2])
    \/ main_health_check
    \/ \E o \in Outcomes : app_post_search(ConnRequest, o[1], o[2])
    \/ \E o \in Outcomes : main_post_search(ConnRequest, o[1], o[2])
    \/ \E o \in Outcomes : app_search_items_get(ConnRequest, o[1], o[2])
    \/ \E o \in Outcomes : main_search_items_get(ConnRequest, o[1], o[2])
    \/ \E id \in ConnIds, o \in Outcomes : app_redirect_to_seller(id, o[1], o[2])
    \/ \E id \in ConnIds, o \in Outcomes : main_redirect_to_seller(id, o[1], o[2])
    \/ \E id \in ConnIds, o \in AdOutcomes : ads_generate_ad(id, o)
    \/ \E id \in ConnIds, o \in AdOutcomes : ads_update_latest_ad(id, Edited("x"), o)
    \/ \E id \in ConnIds, o \in AdOutcomes : ads_list_ads_for_product(id, o)

SpecConn == InitConn /\ [][NextConn]_vars

\* C3: every connection a request handler acquires is closed on every exit
\* path, so after any sequence of requests no connection of a finished
\* request is open.
C3_NoOpenConnection == open_conns = 0

\* ------------------------------------------ specification: the SQL text
SqlListings ==
    SetToSeq(Listings({<<1, TRUE>>}, {Some(4000), Some(8000)}, {Some(GoodUrl)},
                      {SizeM}, {CondNew}, {Ebay}))

SqlRequests ==
    [q : {<<>>, <<SP>>, <<"a">>, <<"N">>},
     brands : {<<>>, <<Nike>>, <<Nike, nike>>, <<nike, Nike>>},
     sizes : {<<>>, <<SizeM>>}, conditions : {<<>>}, marketplaces : {<<>>},
     price_min : {NULL, Some(Mills(50)), Some(80005)}, price_max : {NULL},
     sort : {"best", "price_asc"}, page : {1, 2}, per_page : {1}]

InitSql ==
    /\ DbInit({Plain}, SqlListings, MaxSources)
    /\ IdleInit(1)

NextSql ==
    \/ \E req \in SqlRequests : app_post_search(req, "ok", "ok")
    \/ \E req \in SqlRequests : main_post_search(req, "ok", "ok")

SpecSql == InitSql /\ [][NextSql]_vars

\* Which filters are present, how long each list filter is, and the sort.
Shape(req) ==
    [q |-> strip(req.q) # <<>>, brands |-> Len(req.brands), sizes |-> Len(req.sizes),
     conditions |-> Len(req.conditions), marketplaces |-> Len(req.marketplaces),
     price_min |-> ~IsNull(req.price_min), price_max |-> ~IsNull(req.price_max),
     sort |-> req.sort]

\* The last request was a POST /search that executed its statements.
Queried == PostSearch /\ "statements" \in DOMAIN db_calls

\* What the endpoint of the last request hands to the database for `raw`.
CallsFor(raw) ==
    IF request.impl = "app"
    THEN app_PostSearch(raw, request.env, request.q).calls
    ELSE main_PostSearch(raw, request.env, request.q).calls

TextsOf(stmts) == [i \in 1..Len(stmts) |-> stmts[i].sql]

\* every piece of text a statement may be made of
SqlPieces ==
    {"%s", ",", ")", " AND ", "WHERE ", "(ic.title ILIKE ", " OR ic.brand ILIKE ",
     " OR ic.category ILIKE ", "ic.brand IN (", "s.size IN (", "s.condition IN (",
     "s.marketplace_code IN (", "s.price_cents >= ", "s.price_cents <= ",
     " GROUP BY ic.id ORDER BY ", " LIMIT ", " OFFSET ", FromJoin,
     "SELECT COUNT(DISTINCT ic.id) as total ",
     "SELECT ic.id, ic.brand, MIN(s.price_cents) AS price_cents, COUNT(s.*) AS listings_count, ARRAY_AGG(DISTINCT s.seller_url) AS seller_urls "}
    \cup {order_by(m) : m \in SortModes}

\* the positions of the placeholders of a text, in order
Holes(sql) == SelectSeq([i \in 1..Len(sql) |-> i], LAMBDA i : sql[i] = "%s")

\* The predicate a placeholder stands in: the nearest piece before it that
\* is neither a placeholder nor a comma, and how many placeholders that
\* predicate has up to this one.
OwnerAt(sql, p) ==
    LET j == CHOOSE k \in 1..(p - 1) :
                 /\ sql[k] \notin {"%s", ","}
                 /\ \A m \in (k + 1)..(p - 1) : sql[m] \in {"%s", ","}
    IN [piece |-> sql[j],
        n |-> Cardinality({m \in (j + 1)..p : sql[m] = "%s"})]

\* the value of the request that the predicate compares with
ValueFor(req, owner) ==
    CASE owner.piece \in {"(ic.title ILIKE ", " OR ic.brand ILIKE ",
                          " OR ic.category ILIKE "} ->
             StrParam(<<"%">> \o strip(req.q) \o <<"%">>)
      [] owner.piece = "ic.brand IN (" /\ owner.n <= Len(req.brands) ->
             StrParam(req.brands[owner.n])
      [] owner.piece = "s.size IN (" /\ owner.n <= Len(req.sizes) ->
             StrParam(req.sizes[owner.n])
      [] owner.piece = "s.condition IN (" /\ owner.n <= Len(req.conditions) ->
             StrParam(req.conditions[owner.n])
      [] owner.piece = "s.marketplace_code IN (" /\ owner.n <= Len(req.marketplaces) ->
             StrParam(req.marketplaces[owner.n])
      [] owner.piece = "s.price_cents >= " /\ ~IsNull(req.price_min) ->
             IntParam(int(Val(req.price_min), 10))
      [] owner.piece = "s.price_cents <= " /\ ~IsNull(req.price_max) ->
             IntParam(int(Val(req.price_max), 10))
      [] owner.piece = " LIMIT " -> IntParam(req.per_page)
      [] owner.piece = " OFFSET " -> IntParam((req.page - 1) * req.per_page)
      [] OTHER -> <<"none">>

\* the statement has one parameter per placeholder, each the value of the
\* request that its predicate compares with
BoundInOrder(stmt, req) ==
    /\ Len(Holes(stmt.sql)) = Len(stmt.params)
    /\ \A k \in 1..Len(stmt.params) :
           stmt.params[k] = ValueFor(req, OwnerAt(stmt.sql, Holes(stmt.sql)[k]))

\* C11: the search and count SQL texts of search_items are made of fixed
\* pieces only and are the same for two requests that agree on which filters
\* are present, on the length of each list filter and on the sort; every
\* value of the caller is in the parameter sequence, at the place of its %s
\* placeholder.
C11_SqlTextIndependentOfValues ==
    Queried =>
        /\ \A r2 \in SqlRequests :
               (Shape(r2) = Shape(request.raw) /\ "statements" \in DOMAIN CallsFor(r2))
                   => TextsOf(CallsFor(r2).statements) = TextsOf(db_calls.statements)
        /\ \A i \in 1..Len(db_calls.statements) :
               /\ \A k \in 1..Len(db_calls.statements[i].sql) :
                      db_calls.statements[i].sql[k] \in SqlPieces
               /\ BoundInOrder(db_calls.statements[i], request.raw)

\* A request with a text query, two brands and a price bound was executed,
\* and another request of the same shape carries other values.
C11_Witness ==
    /\ Queried /\ Len(db_calls.statements) = 2
    /\ strip(request.raw.q) # <<>> /\ Len(request.raw.brands) = 2
    /\ ~IsNull(request.raw.price_min)
    /\ Len(db_calls.statements[1].params) = 8
    /\ \E r2 \in SqlRequests :
           /\ Shape(r2) = Shape(request.raw)
           /\ r2.q # request.raw.q /\ r2.brands # request.raw.brands
           /\ r2.price_min # request.raw.price_min

\* ------------------------------------------ specification: the brands
\* the brand written in another case on every second item
MixedCase == [i \in ItemIds |-> [brand |-> IF i % 2 = 0 THEN nike ELSE Nike,
                                 last_seen |-> 1]]

\* listings priced at 40, 80 and 150 dollars
BrandListings ==
    SetToSeq(Listings({<<c, TRUE>> : c \in ItemIds},
                      {Some(4000), Some(8000), Some(15000)}, {Some(GoodUrl)},
                      {SizeM}, {CondNew}, {Ebay}))

BrandRequests ==
    [q : {<<>>}, brands : {<<>>, <<nike>>, <<Nike>>}, sizes : {<<>>},
     conditions : {<<>>}, marketplaces : {<<>>},
     price_min : {NULL, Some(Mills(50))}, price_max : {NULL, Some(Mills(200))},
     sort : {"price_asc"}, page : {DefaultPage}, per_page : {DefaultPerPage}]

InitBrand ==
    /\ DbInit({Plain, MixedCase}, BrandListings, MaxItems)
    /\ IdleInit(1)

NextBrand ==
    \/ \E req \in BrandRequests : app_post_search(req, "ok", "ok")
    \/ \E req \in BrandRequests : main_post_search(req, "ok", "ok")

SpecBrand == InitBrand /\ [][NextBrand]_vars

\* the brand equals one of the requested brands, ignoring letter case
BrandAmong(brand, brands) ==
    \E i \in 1..Len(brands) : lower(brand) = lower(brands[i])

\* the ids of the items that have a listing passing the listing-level
\* filters and a brand among the requested ones, ignoring case
IdsIgnoringCase ==
    {IdText(r.ic.id) :
        r \in {o \in ActiveJoin :
                  /\ PassesFilters(request.raw, o.s)
                  /\ BrandAmong(o.ic.brand, request.raw.brands)}}

\* three Nike items with one listing each, priced 40, 80 and 150 dollars
NikeFixture ==
    /\ \A c \in item_canonical : c.brand = Nike
    /\ \A i \in ItemIds : Cardinality(ActiveListings(IdText(i))) = 1
    /\ {Val(r.s.price_cents) : r \in ActiveJoin} = {4000, 8000, 15000}

\* C12: the brand filter of /search keeps an item iff its brand equals one
\* of the requested brands ignoring letter case; brands = ["nike"] with
\* price_min = 50, price_max = 200 and sort = price_asc over three Nike items
\* priced 40, 80 and 150 dollars returns the items priced 80 and 150, in
\* this order.
C12_BrandIgnoresCase ==
    (PostSearch /\ response.status = 200 /\ request.raw.brands # <<>>) =>
        /\ {response.body.items[i].id : i \in 1..Len(response.body.items)}
               = IdsIgnoringCase
        /\ (/\ NikeFixture /\ request.raw.brands = <<nike>>
            /\ request.raw.price_min = Some(Mills(50))
            /\ request.raw.price_max = Some(Mills(200)))
               => /\ Len(response.body.items) = 2
                  /\ response.body.items[1].price_cents = Some(8000)
                  /\ response.body.items[2].price_cents = Some(15000)

\* --------------------------------------- specification: database failures
OutageRequest ==
    [q |-> <<>>, brands |-> <<>>, sizes |-> <<>>, conditions |-> <<>>,
     marketplaces |-> <<>>, price_min |-> NULL, price_max |-> NULL, sort |-> "best",
     page |-> DefaultPage, per_page |-> DefaultPerPage]

InitOutage ==
    /\ DbInit({Plain}, ConnListings, MaxSources)
    /\ IdleInit(1)

NextOutage ==
    \/ \E o \in Outcomes : app_post_search(OutageRequest, o[1], o[2])
    \/ \E o \in Outcomes : main_post_search(OutageRequest, o[1], o[2])
    \/ \E o \in Outcomes : app_search_items_get(OutageRequest, o[1], o[2])
    \/ \E o \in Outcomes : main_search_items_get(OutageRequest, o[1], o[2])
    \/ \E id \in ConnIds, o \in Outcomes : app_redirect_to_seller(id, o[1], o[2])
    \/ \E id \in ConnIds, o \in Outcomes : main_redirect_to_seller(id, o[1], o[2])

SpecOutage == InitOutage /\ [][NextOutage]_vars

\* psycopg2.connect raised an OperationalError, or the driver raised a
\* psycopg2.Error while a query ran
DatabaseFailed ==
    /\ request.endpoint \in {"POST /search", "GET /search", "GET /click"}
    /\ \/ request.env = "operational_error"
       \/ request.env = "ok" /\ request.q = "db_error"

\* C13: a /search or /click request during which the database fails (the
\* connection fails or the driver raises a query error) is answered 503, by
\* the handlers of both files.
C13_DbFailureIs503 == DatabaseFailed => response.status = 503

\* ------------------------------------- specification: rows that fail
InitDrop ==
    /\ DbInit({Plain}, CrawlListings, MaxSources)
    /\ IdleInit(1)

NextDrop ==
    \/ \E req \in CrawlRequests : app_post_search(req, "ok", "ok")
    \/ \E req \in CrawlRequests : main_post_search(req, "ok", "ok")

SpecDrop == InitDrop /\ [][NextDrop]_vars

\* the rows of the requested page, and those of them that coerce
PageRows == SearchRows(request.raw)
GoodRows == SelectSeq(PageRows, Coerces)

\* C14: when a row of the page fails coercion into a SearchItem, the
\* response is successful and holds the remaining rows of the page in their
\* order; total, total_pages and has_more are what they are without the
\* failure.  For search_items of both files.
C14_BadRowDropped ==
    (PostSearch /\ \E i \in 1..Len(PageRows) : ~Coerces(PageRows[i])) =>
        /\ response.status = 200
        /\ IdsOf(response) = [i \in 1..Len(GoodRows) |-> IdText(GoodRows[i].id)]
        /\ response.body.total = Cardinality(MatchingIds)
        /\ IsCeilDiv(response.body.total_pages, response.body.total,
                     request.raw.per_page)
        /\ response.body.has_more
               = (request.raw.page * request.raw.per_page < response.body.total)

\* ------------------------------------- specification: list parameters
\* the texts of at most n characters over a letter, the comma and the blank
RECURSIVE Texts(_)
Texts(n) ==
    IF n = 0 THEN {<<>>}
    ELSE Texts(n - 1) \cup
         {Append(t, c) : t \in {u \in Texts(n - 1) : Len(u) = n - 1},
                         c \in {"a", ",", SP}}

ExampleList == <<"a", ",", SP, "a", ",", ",", "b", SP>>

\* GET /search?brands=...: every other parameter has its default
ParseRequests ==
    [q : {<<>>}, brands : Texts(MaxLen) \cup {ExampleList}, sizes : {<<>>},
     conditions : {<<>>}, marketplaces : {<<>>}, price_min : {NULL},
     price_max : {NULL}, sort : {"best"}, page : {DefaultPage},
     per_page : {DefaultPerPage}]

InitParse ==
    /\ DbInit({Plain}, SqlListings, MaxSources)
    /\ IdleInit(1)

NextParse ==
    \/ \E g \in ParseRequests : app_search_items_get(g, "ok", "ok")
    \/ \E g \in ParseRequests : main_search_items_get(g, "ok", "ok")

SpecParse == InitParse /\ [][NextParse]_vars

\* the brands that the last GET /search bound to its search query
BoundBrands ==
    LET ps == db_calls.statements[1].params
    IN [i \in 1..(Len(ps) - 2) |-> ps[i][2]]

\* C16: GET /search turns a comma-separated list parameter into trimmed,
\* non-empty tokens with no duplicates: no token is empty or has a leading or
\* trailing blank, no token occurs twice, and "a, a,,b " yields exactly the
\* tokens a and b.
C16_ListParamDeduplicated ==
    (request.endpoint = "GET /search" /\ response.status = 200) =>
        /\ \A i \in 1..Len(BoundBrands) :
               /\ BoundBrands[i] # <<>>
               /\ Head(BoundBrands[i]) # SP
               /\ BoundBrands[i][Len(BoundBrands[i])] # SP
        /\ \A i, j \in 1..Len(BoundBrands) : i # j => BoundBrands[i] # BoundBrands[j]
        /\ request.raw.brands = ExampleList =>
               /\ Len(BoundBrands) = 2
               /\ {BoundBrands[i] : i \in 1..2} = {<<"a">>, <<"b">>}

\* ------------------------------------- specification: repeated searches
RepeatListings ==
    SetToSeq(Listings({<<c, TRUE>> : c \in 1..MaxLinked}, {Some(4000), Some(8000)},
                      {Some(GoodUrl)}, {SizeM}, {CondNew}, {Ebay}))

RepeatRequests ==
    [q : {<<>>}, brands : {<<>>}, sizes : {<<>>}, conditions : {<<>>},
     marketplaces : {<<>>}, price_min : {NULL}, price_max : {NULL},
     sort : SortModes, page : {DefaultPage}, per_page : {1, 2}]

InitRepeat ==
    /\ DbInit({Plain}, RepeatListings, MaxSources)
    /\ IdleInit(MaxRepeats)

NextRepeat ==
    \E req \in RepeatRequests : app_post_search(req, "ok", "ok")

SpecRepeat == InitRepeat /\ [][NextRepeat]_vars

\* the sequences without repetition of all the elements of S
RECURSIVE Perms(_)
Perms(S) ==
    IF S = {} THEN {<<>>}
    ELSE UNION {{<<x>> \o p : p \in Perms(S \ {x})} : x \in S}

\* the orders in which the database may return the groups under the ORDER
\* BY of the request: no row stands after a row that it precedes
AllowedOrders(req) ==
    {o \in Perms(Groups(req)) :
        \A i, j \in 1..Len(o) : i < j => ~OrderBefore(req.sort, o[j], o[i])}

\* The last two requests were the same successful search.
Repeated ==
    /\ Search /\ response.status = 200
    /\ previous.request = request

\* C17: two /search calls with the same parameters on unchanged data return
\* the same items in the same order and the same total, page, per_page,
\* total_pages and has_more; the ORDER BY of the search leaves the database
\* one order of the rows only.
C17_SameAnswerTwice ==
    /\ Repeated => response.body = previous.response.body
    /\ (Search /\ response.status = 200) =>
           Cardinality(AllowedOrders(request.raw)) = 1

\* The same search sorted by price was served twice and returned two items
\* of the same price.
C17_Witness ==
    /\ Repeated /\ request.raw.sort = "price_asc"
    /\ Len(response.body.items) = 2
    /\ response.body.items[1].price_cents = response.body.items[2].price_cents

\* ------------------------------------- specification: the count query
CountListings ==
    SetToSeq(Listings(FilterLinks, {Some(4000), Some(8000)}, {Some(GoodUrl)},
                      {SizeS, SizeM}, {CondNew}, {Ebay}))

CountRequests ==
    [q : {<<>>}, brands : {<<>>, <<Nike>>}, sizes : {<<>>, <<SizeM>>},
     conditions : {<<>>}, marketplaces : {<<>>},
     price_min : {NULL, Some(Mills(50))}, price_max : {NULL},
     sort : {"best"}, page : {1, 2}, per_page : {1}]

InitCount ==
    /\ DbInit({Plain, MixedCase}, CountListings, MaxSources)
    /\ IdleInit(1)

NextCount ==
    \/ \E req \in CountRequests : app_post_search(req, "ok", "ok")
    \/ \E req \in CountRequests : main_post_search(req, "ok", "ok")

SpecCount == InitCount /\ [][NextCount]_vars

\* the position of a piece in a text, 0 when the text does not hold it
Find(sql, piece) ==
    IF \E i \in 1..Len(sql) : sql[i] = piece
    THEN CHOOSE i \in 1..Len(sql) : sql[i] = piece /\ \A j \in 1..(i - 1) : sql[j] # piece
    ELSE 0

\* the WHERE clause of a statement's text: from WHERE up to GROUP BY, or up
\* to the end of the text
WhereOf(sql) ==
    IF Find(sql, "WHERE ") = 0 THEN <<>>
    ELSE SubSeq(sql, Find(sql, "WHERE "),
                IF Find(sql, " GROUP BY ic.id ORDER BY ") = 0 THEN Len(sql)
                ELSE Find(sql, " GROUP BY ic.id ORDER BY ") - 1)

\* C18: the count query of search_items runs with the WHERE clause of the
\* search query and with its parameters less the LIMIT and OFFSET ones, and
\* total is the number of distinct canonical item ids that the search query
\* returns without LIMIT and OFFSET.
C18_CountUsesSameWhere ==
    (Queried /\ Len(db_calls.statements) = 2 /\ response.status = 200) =>
        LET search == db_calls.statements[1]
            count == db_calls.statements[2]
        IN /\ WhereOf(count.sql) = WhereOf(search.sql)
           /\ Len(search.params) = Len(count.params) + 2
           /\ count.params = SubSeq(search.params, 1, Len(search.params) - 2)
           /\ response.body.total
                  = Cardinality({g.id : g \in Groups(request.raw)})

\* A search with two filters whose page holds fewer items than total.
C18_Witness ==
    /\ Queried /\ response.status = 200
    /\ WhereOf(db_calls.statements[2].sql) # <<>>
    /\ Len(db_calls.statements[2].params) = 2
    /\ response.body.total = 2 /\ Len(response.body.items) = 1

\* ------------------------------------- specification: the best ranking
BestListings ==
    SetToSeq(Listings({<<c, TRUE>> : c \in 1..MaxLinked},
                      {Some(4000), Some(4500), Some(8000)}, {Some(GoodUrl)},
                      {SizeM}, {CondNew}, {Ebay}))

BestRequest ==
    [q |-> <<>>, brands |-> <<>>, sizes |-> <<>>, conditions |-> <<>>,
     marketplaces |-> <<>>, price_min |-> NULL, price_max |-> NULL, sort |-> "best",
     page |-> DefaultPage, per_page |-> DefaultPerPage]

InitBest ==
    /\ DbInit({Plain}, BestListings, MaxItems)
    /\ IdleInit(1)

NextBest ==
    \/ app_post_search(BestRequest, "ok", "ok")
    \/ main_post_search(BestRequest, "ok", "ok")
    \/ app_search_items_get(BestRequest, "ok", "ok")
    \/ main_search_items_get(BestRequest, "ok", "ok")

SpecBest == InitBest /\ [][NextBest]_vars

\* the number that an id text writes
IdNumber(text) == CHOOSE n \in 0..(10 * MaxItems) : IdText(n) = text

\* 0.7 * price_cents + 0.3 * 1000 / listings_count of item a, compared with
\* that of item b: both multiplied by 10 * count(a) * count(b)
ScoreTimes(a, b) ==
    7 * Val(a.price_cents) * a.listings_count * b.listings_count
        + 3000 * b.listings_count

\* C19: with sort = best the items are in ascending order of the score
\* 0.7 * price_cents + 0.3 * 1000 / listings_count, those of equal score in
\* descending order of id.
C19_BestScoreOrder ==
    (Search /\ response.status = 200 /\ request.raw.sort = "best") =>
        \A i, j \in 1..Len(response.body.items) :
            i < j =>
                LET a == response.body.items[i]
                    b == response.body.items[j]
                IN \/ ScoreTimes(a, b) < ScoreTimes(b, a)
                   \/ /\ ScoreTimes(a, b) = ScoreTimes(b, a)
                      /\ IdNumber(a.id) > IdNumber(b.id)

\* ------------------------------------- specification: concurrent /ads
AdsListings ==
    SetToSeq(Listings({<<1, TRUE>>}, {Some(4000), Some(8000)}, {Some(GoodUrl)},
                      {SizeM}, {CondNew}, {Ebay}))

InitAds ==
    /\ DbInit({Plain}, AdsListings, MaxSources)
    /\ IdleInit(MaxRequests)

NextAds ==
    \/ \E w \in Workers : tx_begin_generate_ad(w, IdText(1))
    \/ \E w \in Workers : tx_begin_update_latest_ad(w, IdText(1), Edited("x"))
    \/ \E w \in Workers : tx_generate_select(w)
    \/ \E w \in Workers : tx_generate_insert_ad(w)
    \/ \E w \in Workers : tx_generate_insert_version(w)
    \/ \E w \in Workers : tx_update_select(w)
    \/ \E w \in Workers : tx_update_update(w)
    \/ \E w \in Workers : tx_update_insert_version(w)
    \/ \E w \in Workers : tx_commit(w)
    \/ \E w \in Workers : tx_abort(w)

SpecAds == InitAds /\ [][NextAds]_vars

\* the committed version numbers of an ad, one per row
VersionRows(ad_id) ==
    {i \in 1..Len(ad_generator_versions) :
        ad_generator_versions[i].ad_generator_id = ad_id}

\* C20: after any interleaving of generate_ad and update_latest_ad
\* transactions under READ COMMITTED, the version_number values stored for
\* one ad_generator_id are pairwise distinct and are 1..n without a gap.
C20_VersionsDistinct ==
    \A ad_id \in {ad_generator_versions[i].ad_generator_id :
                     i \in 1..Len(ad_generator_versions)} :
        /\ \A i, j \in VersionRows(ad_id) :
               i # j => ad_generator_versions[i].version_number
                            # ad_generator_versions[j].version_number
        /\ {ad_generator_versions[i].version_number : i \in VersionRows(ad_id)}
               = 1..Cardinality(VersionRows(ad_id))

\* Two PATCH transactions for the same ad overlapped: one has committed
\* version 2 while the other, which had selected the ad before, waits to
\* update it or goes on.
C20_Witness ==
    /\ request.endpoint = "PATCH /ads/product" /\ response.status = 200
    /\ \E ad_id \in AdIdsInUse :
           /\ Cardinality(VersionRows(ad_id)) = 2
           /\ \E w \in Workers :
                  /\ txns[w].kind = "update" /\ txns[w].ad_id = ad_id
                  /\ txns[w].pc = "update"

\* --------------------------- specification: the ad and its versions
\* Listings of item 1, some without a price: generate_group_ad_script fails
\* on those.
VersionListings ==
    SetToSeq(Listings({<<1, TRUE>>}, {Some(4000), NULL}, {Some(GoodUrl)},
                      {SizeM}, {CondNew}, {Ebay}))

\* the script bodies a PATCH sends
Bodies == {Edited("x"), Edited("y")}

InitVersions ==
    /\ DbInit({Plain}, VersionListings, MaxSources)
    /\ IdleInit(MaxRequests)

NextVersions ==
    \/ \E w \in Workers : tx_begin_generate_ad(w, IdText(1))
    \/ \E w \in Workers, b \in Bodies : tx_begin_update_latest_ad(w, IdText(1), b)
    \/ \E w \in Workers : tx_generate_select(w)
    \/ \E w \in Workers : tx_generate_insert_ad(w)
    \/ \E w \in Workers : tx_generate_insert_version(w)
    \/ \E w \in Workers : tx_update_select(w)
    \/ \E w \in Workers : tx_update_update(w)
    \/ \E w \in Workers : tx_update_insert_version(w)
    \/ \E w \in Workers : tx_commit(w)
    \/ \E w \in Workers : tx_abort(w)

SpecVersions == InitVersions /\ [][NextVersions]_vars

\* the rows of ad_generator_versions that hold the highest version_number
\* of an ad
HighestRows(ad_id) ==
    {i \in VersionRows(ad_id) :
        \A j \in VersionRows(ad_id) :
            ad_generator_versions[j].version_number
                <= ad_generator_versions[i].version_number}

\* C21: after any sequence of committed or failed generate_ad and
\* update_latest_ad requests, every row of ad_generators has at least one
\* row in ad_generator_versions, and its generated_script equals the
\* script_body of its highest-numbered version.
C21_AdMatchesHighestVersion ==
    \A a \in 1..Len(ad_generators) :
        /\ VersionRows(ad_generators[a].id) # {}
        /\ \A i \in HighestRows(ad_generators[a].id) :
               ad_generator_versions[i].script_body = ad_generators[a].generated_script

\* An ad was generated, a request after it failed with 500, and a PATCH
\* after that committed a script that differs from the one of version 1.
C21_Witness ==
    /\ request.endpoint = "PATCH /ads/product" /\ response.status = 200
    /\ previous.response.status = 500
    /\ \E a \in 1..Len(ad_generators) :
           /\ Cardinality(VersionRows(ad_generators[a].id)) = 2
           /\ \E i \in VersionRows(ad_generators[a].id) :
                  /\ ad_generator_versions[i].version_number = 1
                  /\ ad_generator_versions[i].script_body
                         # ad_generators[a].generated_script

====
